---- MODULE Spec2Model ----
(***************************************************************************)
(* A model of src/parsing/regex.rs: the lazily compiled, serializable      *)
(* Regex value, its three source representations, the once-only           *)
(* compilation cell, and the capture Region filled by search.              *)
(*                                                                         *)
(* Only the fancy-regex backend is modelled: the onig backend (lines       *)
(* 169-225) defines none of parse_expr_tree, deserialize_expr_tree and     *)
(* from_expr_tree, which Regex calls, so the file builds with the fancy    *)
(* backend only.                                                           *)
(*                                                                         *)
(* Offsets are 0-based byte offsets as in the source; a text is a sequence *)
(* of one-character strings, so offset o is index o + 1.                   *)
(***************************************************************************)
EXTENDS Integers, Sequences, FiniteSets, TLC

(***************************************************************************)
(* Bounds of the model.                                                    *)
(***************************************************************************)
\* Longest text handed to is_match / search.
MaxTextLen == 2
\* Number of Regex instances that can exist at once.
MaxRegex == 2
\* Number of threads sharing the Regex instances.
NumThreads == 2
\* Calls are no longer started on an instance once the engine's build
\* routine has run this many times on it.
MaxBuilds == 2
\* The engine's backtracking budget for one search (fancy-regex's
\* backtrack_limit, scaled to the size of the modelled patterns).
BacktrackLimit == 12
\* Highest capture index read back through Region::pos.
MaxIndex == 4

Alphabet == {"a", "b"}
MetaChars == {"(", ")", "?", "\\"}
Digits == {"1", "2"}

RegexIds == 1..MaxRegex
Threads == 1..NumThreads

\* Option<T>: None is the empty tuple, Some((s, e)) the pair <<s, e>>.
None == <<>>

RECURSIVE SeqsUpTo(_, _)
SeqsUpTo(S, n) ==
    IF n = 0 THEN {<<>>}
    ELSE LET shorter == SeqsUpTo(S, n - 1)
         IN  shorter \cup {Append(s, c) : s \in shorter, c \in S}

Texts == SeqsUpTo(Alphabet, MaxTextLen)

(***************************************************************************)
(* Expression trees.  A tree is a sequence of items; an item is a literal  *)
(* (possibly in a capture group, possibly optional) or a backreference.    *)
(***************************************************************************)
Lit(c, g, o) == [kind |-> "lit", ch |-> c, n |-> 0, grp |-> g, opt |-> o]
Backref(k, o) == [kind |-> "backref", ch |-> "", n |-> k, grp |-> FALSE, opt |-> o]

\* Seq-safe read: "" past the end of the text.
At(s, i) == IF i >= 1 /\ i <= Len(s) THEN s[i] ELSE ""

DigitValue(c) == IF c = "1" THEN 1 ELSE 2

\* Number of capture groups among the first i items of tree.
RECURSIVE GroupsBefore(_, _)
GroupsBefore(tree, i) ==
    IF i = 0 THEN 0
    ELSE GroupsBefore(tree, i - 1) + (IF tree[i].grp THEN 1 ELSE 0)

GroupCount(tree) == GroupsBefore(tree, Len(tree))

(***************************************************************************)
(* regex_impl::Regex::parse_expr_tree: fancy_regex::Expr::parse_tree on    *)
(* the pattern grammar   item ::= atom "?"?                                *)
(*   atom ::= c | "(" c ")" | "(?:" c ")" | "\" digit                      *)
(* A non-capturing group leaves no trace in the tree.                      *)
(***************************************************************************)
ParseErr == [ok |-> FALSE, tree |-> <<>>]

RECURSIVE ParseItems(_, _, _)
ParseItems(s, i, acc) ==
    IF i > Len(s) THEN [ok |-> TRUE, tree |-> acc]
    ELSE
      LET c == s[i]
          \* the atom at i: [ok, item, next]
          atom ==
            IF c = "(" THEN
              IF At(s, i + 1) = "?" /\ At(s, i + 2) = ":"
                 /\ At(s, i + 3) # "" /\ At(s, i + 3) \notin MetaChars
                 /\ At(s, i + 4) = ")"
              THEN [ok |-> TRUE, item |-> Lit(s[i + 3], FALSE, FALSE), next |-> i + 5]
              ELSE IF At(s, i + 1) # "" /\ At(s, i + 1) \notin MetaChars
                      /\ At(s, i + 2) = ")"
              THEN [ok |-> TRUE, item |-> Lit(s[i + 1], TRUE, FALSE), next |-> i + 3]
              ELSE [ok |-> FALSE, item |-> Lit("", FALSE, FALSE), next |-> i]
            ELSE IF c = "\\" THEN
              IF At(s, i + 1) \in Digits
              THEN [ok |-> TRUE, item |-> Backref(DigitValue(s[i + 1]), FALSE), next |-> i + 2]
              ELSE [ok |-> FALSE, item |-> Lit("", FALSE, FALSE), next |-> i]
            ELSE IF c \in MetaChars
              THEN [ok |-> FALSE, item |-> Lit("", FALSE, FALSE), next |-> i]
            ELSE [ok |-> TRUE, item |-> Lit(c, FALSE, FALSE), next |-> i + 1]
      IN
        IF ~atom.ok THEN ParseErr
        ELSE IF At(s, atom.next) = "?"
          THEN ParseItems(s, atom.next + 1, Append(acc, [atom.item EXCEPT !.opt = TRUE]))
          ELSE ParseItems(s, atom.next, Append(acc, atom.item))

parse_expr_tree(pattern) == ParseItems(pattern, 1, <<>>)

(***************************************************************************)
(* crate::dumps: dump_to_uncompressed_binary / from_uncompressed_data on   *)
(* an expression tree.  The encoding is a length byte followed by three    *)
(* bytes per item (tag, payload, flags); decoding reads exactly the items  *)
(* the length byte announces.                                              *)
(***************************************************************************)
CharCode(c) == IF c = "a" THEN 97 ELSE IF c = "b" THEN 98 ELSE 58
CodeChar(b) == IF b = 97 THEN "a" ELSE IF b = 98 THEN "b" ELSE ":"
CharCodes == {97, 98, 58}

Flags(item) == (IF item.grp THEN 1 ELSE 0) + (IF item.opt THEN 2 ELSE 0)

EncodeItem(item) ==
    IF item.kind = "lit" THEN <<0, CharCode(item.ch), Flags(item)>>
    ELSE <<1, item.n, Flags(item)>>

RECURSIVE EncodeItems(_, _)
EncodeItems(tree, i) ==
    IF i > Len(tree) THEN <<>>
    ELSE EncodeItem(tree[i]) \o EncodeItems(tree, i + 1)

dump_to_uncompressed_binary(tree) == <<Len(tree)>> \o EncodeItems(tree, 1)

DecodeErr == [ok |-> FALSE, tree |-> <<>>]

RECURSIVE DecodeItems(_, _, _, _)
DecodeItems(bytes, k, left, acc) ==
    IF left = 0 THEN [ok |-> TRUE, tree |-> acc]
    ELSE IF k + 2 > Len(bytes) THEN DecodeErr
    ELSE
      LET tag == bytes[k]
          arg == bytes[k + 1]
          fl  == bytes[k + 2]
      IN  IF tag = 0 /\ arg \in CharCodes /\ fl \in 0..3
          THEN DecodeItems(bytes, k + 3, left - 1,
                           Append(acc, Lit(CodeChar(arg), fl % 2 = 1, fl \div 2 = 1)))
          ELSE IF tag = 1 /\ arg >= 1 /\ fl \in {0, 2}
          THEN DecodeItems(bytes, k + 3, left - 1,
                           Append(acc, Backref(arg, fl \div 2 = 1)))
          ELSE DecodeErr

from_uncompressed_data(bytes) ==
    IF Len(bytes) = 0 THEN DecodeErr
    ELSE DecodeItems(bytes, 2, bytes[1], <<>>)

deserialize_expr_tree(binary) == from_uncompressed_data(binary)

(***************************************************************************)
(* The regex engine behind regex_impl::Regex (fancy_regex).                *)
(***************************************************************************)
\* RegexBuilder::build_from_expr_tree succeeds unless a backreference names
\* a group that is not open before it (CompileError::InvalidBackref).
BuildOk(tree) ==
    \A i \in 1..Len(tree) :
        tree[i].kind = "backref" =>
            tree[i].n >= 1 /\ tree[i].n <= GroupsBefore(tree, i - 1)

\* The backtracking matcher: items i.. of tree against text at offset p.
\* An optional item is tried first and skipped when the rest then fails;
\* steps counts the item attempts made so far.
RECURSIVE MatchFrom(_, _, _, _, _, _)
MatchFrom(tree, text, i, p, caps, steps) ==
    IF i > Len(tree) THEN [ok |-> TRUE, e |-> p, caps |-> caps, steps |-> steps]
    ELSE
      LET it == tree[i]
          g  == GroupsBefore(tree, i)
          canTake ==
            IF it.kind = "lit" THEN At(text, p + 1) = it.ch
            ELSE /\ caps[it.n + 1] # None
                 /\ At(text, p + 1) # ""
                 /\ At(text, p + 1) = text[caps[it.n + 1][1] + 1]
          capsTake == IF it.grp THEN [caps EXCEPT ![g + 1] = <<p, p + 1>>] ELSE caps
          capsSkip == IF it.grp THEN [caps EXCEPT ![g + 1] = None] ELSE caps
          taken ==
            IF canTake THEN MatchFrom(tree, text, i + 1, p + 1, capsTake, steps + 1)
            ELSE [ok |-> FALSE, e |-> p, caps |-> caps, steps |-> steps + 1]
      IN  IF taken.ok THEN taken
          ELSE IF it.opt
            THEN MatchFrom(tree, text, i + 1, p, capsSkip, taken.steps + 1)
            ELSE [ok |-> FALSE, e |-> p, caps |-> caps, steps |-> taken.steps]

NoCaptures == <<>>
EngineNone == [status |-> "none", caps |-> NoCaptures]
EngineErr == [status |-> "err", caps |-> NoCaptures]

\* The leftmost match starting at or after offset start; "err" once the
\* backtracking budget is spent.
RECURSIVE Scan(_, _, _, _)
Scan(tree, text, start, steps) ==
    IF start > Len(text) THEN EngineNone
    ELSE
      LET r == MatchFrom(tree, text, 1, start,
                         [k \in 1..(GroupCount(tree) + 1) |-> None], steps)
      IN  IF r.steps > BacktrackLimit THEN EngineErr
          ELSE IF r.ok
            THEN [status |-> "some", caps |-> [r.caps EXCEPT ![1] = <<start, r.e>>]]
            ELSE Scan(tree, text, start + 1, r.steps)

\* fancy_regex::Regex::captures_from_pos(text, pos): Ok(Some(captures)),
\* Ok(None) or Err.
captures_from_pos(tree, text, pos) == Scan(tree, text, pos, 0)

\* fancy_regex::Regex::is_match(text): Ok(bool) or Err.
engine_is_match(tree, text) == captures_from_pos(tree, text, 0).status

(***************************************************************************)
(* RegexSource and Regex.                                                  *)
(***************************************************************************)
PatternSource(pattern) ==
    [kind |-> "Pattern", text |-> pattern, bytes |-> <<>>, tree |-> <<>>]
BinarySource(binary) ==
    [kind |-> "Binary", text |-> <<>>, bytes |-> binary, tree |-> <<>>]
ExprTreeSource(tree) ==
    [kind |-> "ExprTree", text |-> <<>>, bytes |-> <<>>, tree |-> tree]
NoSource == [kind |-> "none", text |-> <<>>, bytes |-> <<>>, tree |-> <<>>]

\* A Regex: its source (behind an Arc, never written after construction) and
\* its OnceCell.  state is the cell's state (the compiled slot is present
\* iff it is "Complete"), matcher the tree the cached matcher was built
\* from, builds the number of runs of the engine's build routine on this
\* instance.
MkRegex(source) ==
    [live |-> TRUE, source |-> source, state |-> "Incomplete",
     matcher |-> <<>>, builds |-> 0]
NoRegex ==
    [live |-> FALSE, source |-> NoSource, state |-> "Incomplete",
     matcher |-> <<>>, builds |-> 0]

new(pattern) == MkRegex(PatternSource(pattern))
deserialize(binary) == MkRegex(BinarySource(binary))
from_expr_tree(tree) == MkRegex(ExprTreeSource(tree))

\* Regex::try_compile: Some(error) or None.
try_compile(regex_str) ==
    IF parse_expr_tree(regex_str).ok THEN "None" ELSE "Some"

\* Regex::expr_tree: Ok(tree) or Err.
expr_tree(self) ==
    IF self.source.kind = "Pattern" THEN parse_expr_tree(self.source.text)
    ELSE IF self.source.kind = "Binary" THEN deserialize_expr_tree(self.source.bytes)
    ELSE [ok |-> TRUE, tree |-> self.source.tree]

\* A clone that takes the cell's content along with the source.
clone_CopiesCell(self) ==
    [MkRegex(self.source) EXCEPT
        !.state = IF self.state = "Complete" THEN "Complete" ELSE "Incomplete",
        !.matcher = self.matcher]

\* A clone that copies the resolved tree, not the source.
clone_Resolved(self) ==
    IF expr_tree(self).ok
    THEN MkRegex(ExprTreeSource(expr_tree(self).tree))
    ELSE MkRegex(self.source)

\* impl Clone for Regex: the same source, a new empty cell.
clone(self) == MkRegex(self.source)

\* impl PartialEq for Regex, on the derived equality of RegexSource.
eq(self, other) == self.source = other.source

\* The pattern text as bytes.
RECURSIVE TextBytes(_, _)
TextBytes(text, i) ==
    IF i > Len(text) THEN <<>>
    ELSE <<CharCode(text[i])>> \o TextBytes(text, i + 1)

\* Serialize that writes a Pattern source as its pattern string.
serialize_PatternText(source) ==
    IF source.kind = "Binary" THEN [ok |-> TRUE, bytes |-> source.bytes]
    ELSE IF source.kind = "ExprTree"
      THEN [ok |-> TRUE, bytes |-> dump_to_uncompressed_binary(source.tree)]
    ELSE [ok |-> TRUE, bytes |-> TextBytes(source.text, 1)]

\* Serialize that swallows the parse error and writes an empty tree.
serialize_SwallowError(source) ==
    IF source.kind = "Binary" THEN [ok |-> TRUE, bytes |-> source.bytes]
    ELSE IF source.kind = "ExprTree"
      THEN [ok |-> TRUE, bytes |-> dump_to_uncompressed_binary(source.tree)]
    ELSE LET parsed == parse_expr_tree(source.text)
         IN  [ok |-> TRUE,
              bytes |-> dump_to_uncompressed_binary(
                          IF parsed.ok THEN parsed.tree ELSE <<>>)]

\* impl Serialize for RegexSource: Ok(bytes) or Err.
serialize(source) ==
    IF source.kind = "Binary" THEN [ok |-> TRUE, bytes |-> source.bytes]
    ELSE IF source.kind = "ExprTree"
      THEN [ok |-> TRUE, bytes |-> dump_to_uncompressed_binary(source.tree)]
    ELSE LET parsed == parse_expr_tree(source.text)
         IN  IF parsed.ok
             THEN [ok |-> TRUE, bytes |-> dump_to_uncompressed_binary(parsed.tree)]
             ELSE [ok |-> FALSE, bytes |-> <<>>]

\* impl Deserialize for RegexSource: the bytes are kept undecoded.
deserialize_source(bytes) == BinarySource(bytes)

\* get_or_init whose waiters are never woken: a caller that does not win
\* the cell stays parked, also once the value is there.
GetOrInitStep_NoWake(state) ==
    IF state = "Incomplete" THEN "init" ELSE "wait"

\* get_or_init without the test for a value that is already there.
GetOrInitStep_Rebuild(state) ==
    IF state = "Running" THEN "wait" ELSE "init"

\* get_or_init as a plain check-then-write: nobody waits for a running
\* initializer.
GetOrInitStep_NoLock(state) ==
    IF state = "Complete" THEN "ready" ELSE "init"

\* OnceCell::get_or_init seen from one caller: the value is there
\* ("ready"), the caller wins the cell and runs the initializer ("init"),
\* or another caller is running it and this one waits ("wait").
GetOrInitStep(state) ==
    IF state = "Complete" THEN "ready"
    ELSE IF state = "Incomplete" THEN "init"
    ELSE "wait"

(***************************************************************************)
(* Region.                                                                 *)
(***************************************************************************)
new_region == <<>>

\* init_from_captures without the clear.
init_from_captures_NoClear(positions, captures) == positions \o captures

\* Region::init_from_captures: clear, then one entry per capture.
init_from_captures(positions, captures) == captures

\* Region::pos.
pos(positions, i) == IF i < Len(positions) THEN positions[i + 1] ELSE None

(***************************************************************************)
(* Input sets.                                                             *)
(***************************************************************************)
PatA == <<"a">>
PatNonCapA == <<"(", "?", ":", "a", ")">>
PatTwoGroups == <<"(", "a", ")", "(", "b", ")", "?">>
PatOptB == <<"b", "?">>
PatBacktrack == <<"(", "a", ")", "?", "(", "a", ")", "?", "\\", "1">>
PatUnbalanced == <<"(", "a">>
PatBadBackref == <<"(", "?", ":", "a", ")", "\\", "1">>

TreeOf(pattern) == parse_expr_tree(pattern).tree
BlobOf(pattern) == dump_to_uncompressed_binary(TreeOf(pattern))
BlobTruncated == <<1, 0, 97>>
BlobBadTag == <<1, 7, 0, 0>>

\* A source is valid when it resolves to a tree the engine can build.
ValidSource(source) ==
    LET t == expr_tree(MkRegex(source))
    IN  t.ok /\ BuildOk(t.tree)

LifecycleRegexes ==
    { new(PatTwoGroups), new(PatUnbalanced), deserialize(BlobOf(PatTwoGroups)),
      deserialize(BlobTruncated), from_expr_tree(TreeOf(PatTwoGroups)),
      from_expr_tree(TreeOf(PatBadBackref)) }

SearchPatterns == {PatTwoGroups, PatOptB, PatBacktrack}

ValuePatterns == {PatA, PatNonCapA, PatTwoGroups, PatUnbalanced, PatBadBackref}
ValueBlobs == {BlobOf(PatA), BlobOf(PatA) \o <<0>>, BlobTruncated, BlobBadTag}
ValueTrees == {TreeOf(PatA), TreeOf(PatTwoGroups)}

LifecycleTexts == {<<"a">>, <<"b">>}

VARIABLES
    regexes,    \* RegexIds -> Regex
    arc,        \* RegexIds -> which source allocation (Arc<RegexSource>) the
                \* instance points to, named after the instance it was
                \* constructed for; 0 for an unused instance
    pc,         \* Threads -> where the thread is in is_match / search
    call,       \* Threads -> the call in progress: [r, op]
    result,     \* Threads -> what the thread's last operation returned
                \* (for a search: its arguments, the engine's answer and
                \* had, the number of entries the region passed held before)
    region,     \* Threads -> the positions of the thread's own Region
    out         \* what the last operation on values (==, serialize,
                \* deserialize, expr_tree, try_compile) returned

vars == <<regexes, arc, pc, call, result, region, out>>

NoCall == [r |-> 0, op |-> "none"]
NoResult ==
    [val |-> "none", r |-> 0, op |-> "none", text |-> <<>>, begin |-> 0,
     end |-> 0, used |-> FALSE, had |-> 0, engine |-> "none",
     caps |-> NoCaptures]
NoOut ==
    [op |-> "none", a |-> 0, b |-> 0, ok |-> FALSE, val |-> FALSE, data |-> <<>>]
\* The failed expect() swallowed: the call returns false.
Panic_ReturnsFalse(c) == [NoResult EXCEPT !.val = "false", !.r = c.r, !.op = c.op]

\* The call ends in a panic (expect / unwrap in the initializer).
Panic(c) == [NoResult EXCEPT !.val = "panic", !.r = c.r, !.op = c.op]

Live == {r \in RegexIds : regexes[r].live}
Free == RegexIds \ Live
Compiled(r) == regexes[r].state = "Complete"

ThreadsIdle ==
    /\ pc = [t \in Threads |-> "idle"]
    /\ call = [t \in Threads |-> NoCall]
    /\ result = [t \in Threads |-> NoResult]
    /\ region = [t \in Threads |-> new_region]
    /\ out = NoOut

(***************************************************************************)
(* is_match and search, step by step.                                      *)
(***************************************************************************)
\* A thread enters is_match or search on instance r.
Call(t, r, op) ==
    /\ pc[t] = "idle"
    /\ regexes[r].live
    /\ regexes[r].builds < MaxBuilds
    /\ pc' = [pc EXCEPT ![t] = "regex"]
    /\ call' = [call EXCEPT ![t] = [r |-> r, op |-> op]]
    /\ result' = [result EXCEPT ![t] = NoResult]
    /\ out' = NoOut
    /\ UNCHANGED <<regexes, arc, region>>

\* self.regex(): OnceCell::get_or_init decides between the cached matcher
\* and the initializer; a caller that finds the initializer running waits.
GetOrInit(t) ==
    /\ pc[t] = "regex"
    /\ LET r == call[t].r
           step == GetOrInitStep(regexes[r].state)
       IN  /\ step # "wait"
           /\ IF step = "ready"
              THEN /\ pc' = [pc EXCEPT ![t] = "matching"]
                   /\ UNCHANGED regexes
              ELSE /\ pc' = [pc EXCEPT ![t] = "init"]
                   /\ regexes' = [regexes EXCEPT ![r].state = "Running"]
    /\ UNCHANGED <<arc, call, result, region, out>>

\* An initializer that, once the matcher is built, replaces the source by
\* the resolved tree.
Initialize_StoresTree(t) ==
    /\ pc[t] = "init"
    /\ LET r == call[t].r
           tree == expr_tree(regexes[r])
       IN  IF tree.ok /\ BuildOk(tree.tree)
           THEN /\ regexes' = [regexes EXCEPT ![r].state = "Complete",
                                              ![r].matcher = tree.tree,
                                              ![r].builds = @ + 1,
                                              ![r].source = ExprTreeSource(tree.tree)]
                /\ pc' = [pc EXCEPT ![t] = "matching"]
                /\ UNCHANGED <<call, result>>
           ELSE /\ regexes' = [regexes EXCEPT ![r].state = "Incomplete",
                                              ![r].builds = IF tree.ok THEN @ + 1 ELSE @]
                /\ pc' = [pc EXCEPT ![t] = "idle"]
                /\ result' = [result EXCEPT ![t] = Panic(call[t])]
                /\ call' = [call EXCEPT ![t] = NoCall]
    /\ UNCHANGED <<arc, region, out>>

\* The initializer: expr_tree().expect(..), then from_expr_tree, whose
\* build result is unwrapped.  A panic leaves the cell empty.
Initialize(t) ==
    /\ pc[t] = "init"
    /\ LET r == call[t].r
           tree == expr_tree(regexes[r])
       IN  IF ~tree.ok
           THEN /\ regexes' = [regexes EXCEPT ![r].state = "Incomplete"]
                /\ pc' = [pc EXCEPT ![t] = "idle"]
                /\ result' = [result EXCEPT ![t] = Panic(call[t])]
                /\ call' = [call EXCEPT ![t] = NoCall]
           ELSE IF ~BuildOk(tree.tree)
           THEN /\ regexes' = [regexes EXCEPT ![r].state = "Incomplete",
                                              ![r].builds = @ + 1]
                /\ pc' = [pc EXCEPT ![t] = "idle"]
                /\ result' = [result EXCEPT ![t] = Panic(call[t])]
                /\ call' = [call EXCEPT ![t] = NoCall]
           ELSE /\ regexes' = [regexes EXCEPT ![r].state = "Complete",
                                              ![r].matcher = tree.tree,
                                              ![r].builds = @ + 1]
                /\ pc' = [pc EXCEPT ![t] = "matching"]
                /\ UNCHANGED <<call, result>>
    /\ UNCHANGED <<arc, region, out>>

\* regex_impl::Regex::is_match: an engine error counts as no match.
is_match_result(status) == IF status = "some" THEN "true" ELSE "false"

IsMatchReturn(t, text) ==
    /\ pc[t] = "matching"
    /\ call[t].op = "is_match"
    /\ LET r == call[t].r
           status == engine_is_match(regexes[r].matcher, text)
       IN  result' = [result EXCEPT ![t] =
                        [NoResult EXCEPT !.val = is_match_result(status),
                                         !.r = r, !.op = "is_match",
                                         !.text = text, !.end = Len(text),
                                         !.engine = status]]
    /\ pc' = [pc EXCEPT ![t] = "idle"]
    /\ call' = [call EXCEPT ![t] = NoCall]
    /\ UNCHANGED <<regexes, arc, region, out>>

\* search on the whole text, not on text[..end].
search_haystack_Whole(text, end) == text

\* regex_impl::Regex::search: the text the engine is given.
search_haystack(text, end) == SubSeq(text, 1, end)

\* search taking anything but Ok(None) for a match.
search_matched_NotNone(status) == status # "none"

\* regex_impl::Regex::search: "if let Ok(Some(captures))".
search_matched(status) == status = "some"

\* search that clears the region passed before it looks for a match.
search_region_ClearFirst(positions, matched, used, captures) ==
    IF ~used THEN positions
    ELSE IF matched THEN init_from_captures(new_region, captures)
    ELSE new_region

\* regex_impl::Regex::search: the region is written only in the branch of
\* a match, and only when one was passed.
search_region(positions, matched, used, captures) ==
    IF matched /\ used THEN init_from_captures(positions, captures)
    ELSE positions

\* search(text, begin, end, region) with 0 <= begin <= end <= len(text);
\* used says whether a region is passed.
SearchReturn(t, text, begin, end, used) ==
    /\ pc[t] = "matching"
    /\ call[t].op = "search"
    /\ LET r == call[t].r
           found == captures_from_pos(regexes[r].matcher,
                                      search_haystack(text, end), begin)
           matched == search_matched(found.status)
       IN  /\ result' = [result EXCEPT ![t] =
                           [val |-> IF matched THEN "true" ELSE "false",
                            r |-> r, op |-> "search", text |-> text,
                            begin |-> begin, end |-> end, used |-> used,
                            had |-> IF used THEN Len(region[t]) ELSE 0,
                            engine |-> found.status, caps |-> found.caps]]
           /\ region' = [region EXCEPT ![t] =
                           search_region(@, matched, used, found.caps)]
    /\ pc' = [pc EXCEPT ![t] = "idle"]
    /\ call' = [call EXCEPT ![t] = NoCall]
    /\ UNCHANGED <<regexes, arc, out>>

\* Region::new(): the thread replaces its region by a new one.
RegionNew(t) ==
    /\ pc[t] = "idle"
    /\ region' = [region EXCEPT ![t] = new_region]
    /\ result' = [result EXCEPT ![t] = [NoResult EXCEPT !.op = "region_new"]]
    /\ UNCHANGED <<regexes, arc, pc, call, out>>

\* impl Clone for Regex, into the next unused instance.
Clone(r, r2) ==
    /\ regexes[r].live
    /\ r2 \in Free
    /\ \A f \in Free : r2 <= f
    /\ regexes' = [regexes EXCEPT ![r2] = clone(regexes[r])]
    /\ arc' = [arc EXCEPT ![r2] = arc[r]]
    /\ UNCHANGED <<pc, call, result, region, out>>

Ranges(text) == {be \in (0..Len(text)) \X (0..Len(text)) : be[1] <= be[2]}

(***************************************************************************)
(* Spec: one Regex built from any source, shared by the threads and        *)
(* cloned; every thread calls is_match and search on the instances.        *)
(***************************************************************************)
Init ==
    /\ \E first \in LifecycleRegexes :
         regexes = [r \in RegexIds |-> IF r = 1 THEN first ELSE NoRegex]
    /\ arc = [r \in RegexIds |-> IF r = 1 THEN r ELSE 0]
    /\ ThreadsIdle

Next ==
    \/ \E t \in Threads, r \in RegexIds, op \in {"is_match", "search"} : Call(t, r, op)
    \/ \E t \in Threads : GetOrInit(t)
    \/ \E t \in Threads : Initialize(t)
    \/ \E t \in Threads, text \in LifecycleTexts : IsMatchReturn(t, text)
    \/ \E t \in Threads, text \in LifecycleTexts :
         SearchReturn(t, text, 0, Len(text), FALSE)
    \/ \E r, r2 \in RegexIds : Clone(r, r2)

Spec == Init /\ [][Next]_vars

(***************************************************************************)
(* SpecSearch: instances built from patterns with zero, one and two        *)
(* groups; one thread searches any text over any range with them, with and *)
(* without its region.                                                     *)
(***************************************************************************)
Searcher == CHOOSE t \in Threads : \A u \in Threads : t <= u

InitSearch ==
    /\ regexes \in [RegexIds -> {new(p) : p \in SearchPatterns}]
    /\ arc = [r \in RegexIds |-> r]
    /\ ThreadsIdle

NextSearch ==
    \/ \E r \in RegexIds, op \in {"is_match", "search"} : Call(Searcher, r, op)
    \/ GetOrInit(Searcher)
    \/ Initialize(Searcher)
    \/ \E text \in Texts : IsMatchReturn(Searcher, text)
    \/ \E text \in Texts : \E be \in Ranges(text), used \in BOOLEAN :
         SearchReturn(Searcher, text, be[1], be[2], used)
    \/ RegionNew(Searcher)

SpecSearch == InitSearch /\ [][NextSearch]_vars

(***************************************************************************)
(* SpecValue: a single-threaded program builds instances from pattern      *)
(* texts, blobs and trees, compiles some of them by is_match, and compares,*)
(* serializes and deserializes them.                                       *)
(***************************************************************************)
NextFree(r) == r \in Free /\ \A f \in Free : r <= f
Quiet == pc[Searcher] = "idle"
Forget == result' = [result EXCEPT ![Searcher] = NoResult]

\* Regex::new, Regex::from_expr_tree.
New(r, pattern) ==
    /\ Quiet /\ NextFree(r)
    /\ regexes' = [regexes EXCEPT ![r] = new(pattern)]
    /\ arc' = [arc EXCEPT ![r] = r]
    /\ UNCHANGED <<pc, call, result, region, out>>

FromExprTree(r, tree) ==
    /\ Quiet /\ NextFree(r)
    /\ regexes' = [regexes EXCEPT ![r] = from_expr_tree(tree)]
    /\ arc' = [arc EXCEPT ![r] = r]
    /\ UNCHANGED <<pc, call, result, region, out>>

\* The bytes a deserialization can be given: a blob of the input set with
\* no origin, or the bytes the last serialization wrote.
Loadable ==
    {[bytes |-> b, origin |-> 0] : b \in ValueBlobs}
    \cup (IF out.op = "serialize" /\ out.ok
          THEN {[bytes |-> out.data, origin |-> out.a]} ELSE {})

\* Regex::deserialize(binary).
RegexDeserialize(r, load) ==
    /\ Quiet /\ NextFree(r)
    /\ regexes' = [regexes EXCEPT ![r] = deserialize(load.bytes)]
    /\ arc' = [arc EXCEPT ![r] = r]
    /\ out' = [NoOut EXCEPT !.op = "deserialize", !.a = r, !.b = load.origin,
                             !.ok = TRUE, !.data = load.bytes]
    /\ Forget
    /\ UNCHANGED <<pc, call, region>>

\* Deserialize for Regex (transparent over RegexSource, the cell skipped).
SerdeDeserialize(r, load) ==
    /\ Quiet /\ NextFree(r)
    /\ regexes' = [regexes EXCEPT ![r] = MkRegex(deserialize_source(load.bytes))]
    /\ arc' = [arc EXCEPT ![r] = r]
    /\ out' = [NoOut EXCEPT !.op = "deserialize", !.a = r, !.b = load.origin,
                             !.ok = TRUE, !.data = load.bytes]
    /\ Forget
    /\ UNCHANGED <<pc, call, region>>

\* Serialize for Regex (transparent over RegexSource).
Serialize(r) ==
    /\ Quiet /\ regexes[r].live
    /\ LET s == serialize(regexes[r].source)
       IN  out' = [NoOut EXCEPT !.op = "serialize", !.a = r, !.ok = s.ok,
                                !.data = s.bytes]
    /\ Forget
    /\ UNCHANGED <<regexes, arc, pc, call, region>>

\* self == other.
Eq(r1, r2) ==
    /\ Quiet /\ regexes[r1].live /\ regexes[r2].live
    /\ out' = [NoOut EXCEPT !.op = "eq", !.a = r1, !.b = r2, !.ok = TRUE,
                             !.val = eq(regexes[r1], regexes[r2])]
    /\ Forget
    /\ UNCHANGED <<regexes, arc, pc, call, region>>

\* Regex::expr_tree.
ExprTree(r) ==
    /\ Quiet /\ regexes[r].live
    /\ LET t == expr_tree(regexes[r])
       IN  out' = [NoOut EXCEPT !.op = "expr_tree", !.a = r, !.ok = t.ok,
                                !.data = t.tree]
    /\ Forget
    /\ UNCHANGED <<regexes, arc, pc, call, region>>

\* Regex::try_compile; val says whether an error came back.
TryCompile(regex_str) ==
    /\ Quiet
    /\ out' = [NoOut EXCEPT !.op = "try_compile", !.ok = TRUE,
                             !.val = (try_compile(regex_str) = "Some"),
                             !.data = regex_str]
    /\ Forget
    /\ UNCHANGED <<regexes, arc, pc, call, region>>

InitValue ==
    /\ regexes = [r \in RegexIds |-> NoRegex]
    /\ arc = [r \in RegexIds |-> 0]
    /\ ThreadsIdle

NextValue ==
    \/ \E r \in RegexIds, p \in ValuePatterns : New(r, p)
    \/ \E r \in RegexIds, tree \in ValueTrees : FromExprTree(r, tree)
    \/ \E r \in RegexIds, load \in Loadable : RegexDeserialize(r, load)
    \/ \E r \in RegexIds, load \in Loadable : SerdeDeserialize(r, load)
    \/ \E r \in RegexIds : Serialize(r)
    \/ \E r1, r2 \in RegexIds : Eq(r1, r2)
    \/ \E r \in RegexIds : ExprTree(r)
    \/ \E p \in ValuePatterns : TryCompile(p)
    \/ \E r \in RegexIds : Call(Searcher, r, "is_match")
    \/ GetOrInit(Searcher)
    \/ Initialize(Searcher)
    \/ IsMatchReturn(Searcher, <<"a">>)

SpecValue == InitValue /\ [][NextValue]_vars

(***************************************************************************)
(* The lazy compile.                                                       *)
(***************************************************************************)
Valid(r) == regexes[r].live /\ ValidSource(regexes[r].source)
Returned(t, r) == result[t].r = r /\ result[t].val \in {"true", "false"}
InInit(r) == {t \in Threads : pc[t] = "init" /\ call[t].r = r}

\* C1: an instance with a valid source has no compiled matcher when it is
\* constructed, has one as soon as an is_match or search call on it has
\* returned, and its build routine runs at most once: once present, the
\* matcher is never dropped, rebuilt or replaced.
C1_CompiledExactlyOnce ==
    /\ [](\A r \in RegexIds : Valid(r) =>
            /\ regexes[r].builds <= 1
            /\ (Compiled(r) <=> regexes[r].builds = 1)
            /\ (Compiled(r) => regexes[r].matcher = expr_tree(regexes[r]).tree)
            /\ \A t \in Threads :
                 /\ Returned(t, r) => Compiled(r)
                 /\ result[t].r = r => result[t].val # "panic")
    /\ [][\A r \in RegexIds :
            /\ (~regexes[r].live /\ regexes'[r].live) => ~Compiled(r)'
            /\ (Compiled(r) /\ regexes'[r] # regexes[r] /\ Valid(r)) =>
                 /\ Compiled(r)'
                 /\ regexes'[r].matcher = regexes[r].matcher
                 /\ regexes'[r].builds = regexes[r].builds]_vars

\* Every thread has had a call return on the same compiled instance, which
\* was built once.
C1_Witness ==
    \E r \in RegexIds :
        /\ Valid(r) /\ Compiled(r) /\ regexes[r].builds = 1
        /\ \A t \in Threads : Returned(t, r)

\* C2: on a shared instance at most one thread is inside the initializer,
\* and only while the cell is marked running; with a valid source the build
\* runs once in total and every thread that goes on to match does so with
\* the one cached matcher.
C2_SingleInitializer ==
    \A r \in RegexIds : regexes[r].live =>
        /\ Cardinality(InInit(r)) <= 1
        /\ (InInit(r) # {} <=> regexes[r].state = "Running")
        /\ Valid(r) => regexes[r].builds <= 1
        /\ \A t \in Threads :
             (pc[t] = "matching" /\ call[t].r = r) =>
                /\ Compiled(r)
                /\ regexes[r].matcher = expr_tree(regexes[r]).tree

\* One thread is building the matcher of a valid instance while another,
\* in its own first call on that instance, waits at the cell.
C2_Witness ==
    \E r \in RegexIds, t1, t2 \in Threads :
        /\ t1 # t2 /\ Valid(r)
        /\ pc[t1] = "init" /\ call[t1].r = r
        /\ pc[t2] = "regex" /\ call[t2].r = r

(***************************************************************************)
(* search and the Region.                                                  *)
(***************************************************************************)
Found(t) == result[t].op = "search" /\ result[t].val = "true"
SearchedTree(t) == regexes[result[t].r].matcher
Indexes == 0..MaxIndex

\* C8: after a search that returned true with a region passed, pos(0) is
\* the whole match, pos(i) for 1 <= i <= N (N the group count of the
\* pattern just searched) is group i's offsets or None, and pos(i) is None
\* for every i > N, whatever the region held before; a new Region returns
\* None for every index.
C8_RegionHoldsTheMatch ==
    \A t \in Threads :
        /\ (Found(t) /\ result[t].used) =>
             LET N == GroupCount(SearchedTree(t))
             IN  /\ Len(result[t].caps) = N + 1
                 /\ pos(region[t], 0) # None
                 /\ \A i \in Indexes :
                      pos(region[t], i) =
                        IF i <= N THEN result[t].caps[i + 1] ELSE None
        /\ result[t].op = "region_new" =>
             \A i \in Indexes : pos(region[t], i) = None

\* A region that held more entries than the pattern just searched has
\* groups was filled by a successful search.
C8_Witness ==
    \E t \in Threads :
        /\ Found(t) /\ result[t].used
        /\ result[t].had > GroupCount(SearchedTree(t)) + 1
        /\ pos(region[t], 2) = None

\* C9: when the engine reports an error, is_match and search return false
\* (they do not panic), and the step that returns leaves the caller's
\* region as it was.
C9_EngineErrorIsNoMatch ==
    /\ [](\A t \in Threads : result[t].engine = "err" => result[t].val = "false")
    /\ [][\A t \in Threads :
            (pc[t] = "matching" /\ result'[t].engine = "err") =>
                /\ result'[t].val = "false"
                /\ region'[t] = region[t]]_vars

\* A search with a region that already holds a match ended in an engine
\* error.
C9_Witness ==
    \E t \in Threads :
        /\ result[t].op = "search" /\ result[t].engine = "err"
        /\ result[t].used /\ result[t].had > 0
        /\ region[t] # new_region

NoGroups(tree) == [k \in 1..(GroupCount(tree) + 1) |-> None]
MatchesAt(tree, text, s) == MatchFrom(tree, text, 1, s, NoGroups(tree), 0).ok

\* The whole match of thread t's search is the leftmost match of the
\* pattern in text[..end] that starts at or after begin.
LeftmostFrom(t) ==
    LET m == result[t].caps[1]
        hay == SubSeq(result[t].text, 1, result[t].end)
    IN  /\ result[t].begin <= m[1]
        /\ MatchesAt(SearchedTree(t), hay, m[1])
        /\ \A s \in result[t].begin..(m[1] - 1) : ~MatchesAt(SearchedTree(t), hay, s)
        /\ result[t].used => pos(region[t], 0) = m

\* C10 as claimed: the whole match of a successful search is the first
\* match starting at or after begin, starts within [begin, end) and ends at
\* or before end.
C10_Original ==
    \A t \in Threads : Found(t) =>
        /\ LeftmostFrom(t)
        /\ result[t].caps[1][1] < result[t].end
        /\ result[t].caps[1][2] <= result[t].end

\* C10 amended: the whole match of a successful search is the first match
\* starting at or after begin, starts within [begin, end] (an empty match
\* may start at end) and ends at or before end.
C10_MatchWithinRange ==
    \A t \in Threads : Found(t) =>
        /\ LeftmostFrom(t)
        /\ result[t].caps[1][1] <= result[t].end
        /\ result[t].caps[1][1] <= result[t].caps[1][2]
        /\ result[t].caps[1][2] <= result[t].end

\* A search over a range inside the text returned true: begin excludes a
\* match at offset 0, and the match found ends at end although the text
\* goes on.
C10_Witness ==
    \E t \in Threads :
        /\ Found(t) /\ result[t].used
        /\ result[t].begin > 0
        /\ MatchesAt(SearchedTree(t), result[t].text, 0)
        /\ result[t].caps[1][2] = result[t].end
        /\ result[t].end < Len(result[t].text)

(***************************************************************************)
(* Equality, serialization and try_compile.                                *)
(***************************************************************************)
Resolves(r) == expr_tree(regexes[r]).ok
SameTree(r1, r2) == expr_tree(regexes[r1]).tree = expr_tree(regexes[r2]).tree

\* C3: two Regex values whose sources resolve compare equal if and only if
\* their expression trees are structurally equal, whatever representation
\* each holds and whether or not it is compiled.
C3_Original ==
    (out.op = "eq" /\ Resolves(out.a) /\ Resolves(out.b)) =>
        (out.val <=> SameTree(out.a, out.b))

\* C4: the value deserialized from the bytes a value v was serialized to
\* is equal (==) to v, whichever source representation v holds.
C4_Original ==
    (out.op = "deserialize" /\ out.b # 0) => eq(regexes[out.a], regexes[out.b])

C6_Original ==
    \A t \in Threads :
        ~ /\ result[t].val = "panic"
          /\ regexes[result[t].r].source.kind = "Binary"
          /\ ~deserialize_expr_tree(regexes[result[t].r].source.bytes).ok

\* C7: for every text that try_compile accepts, is_match and search on
\* new(text) complete without a fatal error.
C7_Original ==
    \A t \in Threads :
        ~ /\ result[t].val = "panic"
          /\ regexes[result[t].r].source.kind = "Pattern"
          /\ try_compile(regexes[result[t].r].source.text) = "None"

(***************************************************************************)
(* Clones.                                                                 *)
(***************************************************************************)
\* The instances that point to the same source allocation as r: r, the
\* instance it was cloned from and their clones.
Clones(r) == {r2 \in Live : arc[r2] = arc[r]}

\* C11: a value and its clones, compiled independently of one another,
\* are all == to one another, before and after each is compiled, and each
\* of them with a valid source runs at most one build of its own.
C11_ClonesEqualAndBuildOnce ==
    \A r \in Live :
        /\ \A r2 \in Clones(r) :
             /\ eq(regexes[r], regexes[r2])
             /\ eq(regexes[r2], regexes[r])
             /\ (Compiled(r) /\ Compiled(r2)) =>
                  regexes[r].matcher = regexes[r2].matcher
        /\ (regexes[r].builds > 1) => ~Valid(r)

\* A value and a clone of it were compiled by calls of two different
\* threads, each by a build of its own.
C11_Witness ==
    \E r \in Live : \E r2 \in Clones(r) \ {r} : \E t1, t2 \in Threads :
        /\ t1 # t2
        /\ Compiled(r) /\ regexes[r].builds = 1 /\ Returned(t1, r)
        /\ Compiled(r2) /\ regexes[r2].builds = 1 /\ Returned(t2, r2)

\* C12: a clone taken from a value that is already compiled has its
\* compiled slot present at once and shares the original's matcher (when
\* every instance pointing to the source is compiled, the one cloned is).
C12_Original ==
    [][\A r2 \in RegexIds :
         (/\ ~regexes[r2].live /\ regexes'[r2].live
          /\ \A r \in Live : arc[r] = arc'[r2] => Compiled(r)) =>
            /\ Compiled(r2)'
            /\ \A r \in Live : arc[r] = arc'[r2] =>
                  regexes'[r2].matcher = regexes[r].matcher]_vars

(***************************************************************************)
(* The source and the compiled slot.                                       *)
(***************************************************************************)
SourcePresent(r) == regexes[r].source.kind \in {"Pattern", "Binary", "ExprTree"}

\* C13: an instance holds either its unresolved source or a compiled
\* matcher, never both: the source is cleared when the matcher comes into
\* existence.
C13_Original ==
    \A r \in Live : ~(SourcePresent(r) /\ Compiled(r))

\* C14: on an instance whose source does not resolve to a tree, every
\* is_match / search call ends in a panic and none returns a boolean or
\* gets as far as matching; the compiled slot stays absent, nothing is
\* built, and a later call runs the resolution again.
C14_UnresolvedSourcePanics ==
    \A r \in Live : ~Resolves(r) =>
        /\ ~Compiled(r)
        /\ regexes[r].builds = 0
        /\ regexes[r].matcher = <<>>
        /\ \A t \in Threads :
             /\ call[t].r = r => pc[t] \in {"regex", "init"}
             /\ result[t].r = r => result[t].val = "panic"

\* After one thread's call on an unresolvable instance has panicked,
\* another call on the same instance is in the initializer again.
C14_Witness ==
    \E r \in Live : \E t1, t2 \in Threads :
        /\ ~Resolves(r) /\ t1 # t2
        /\ result[t1].r = r /\ result[t1].val = "panic"
        /\ regexes[r].state = "Running"
        /\ pc[t2] = "init" /\ call[t2].r = r

(***************************************************************************)
(* Errors of serialization.                                                *)
(***************************************************************************)
UnparsablePattern(r) ==
    /\ regexes[r].source.kind = "Pattern"
    /\ ~parse_expr_tree(regexes[r].source.text).ok

\* C15: serializing a value whose source is pattern text that does not
\* parse returns an error to the caller: no bytes are written, the call
\* does not panic, and the step leaves every instance (its source and its
\* compiled slot) as it was.
C15_SerializeReturnsParseError ==
    /\ []((out.op = "serialize" /\ UnparsablePattern(out.a)) =>
            /\ ~out.ok
            /\ out.data = <<>>
            /\ \A t \in Threads : pc[t] = "idle" /\ result[t].val # "panic")
    /\ [][(out'.op = "serialize" /\ out' # out) =>
            /\ regexes' = regexes
            /\ arc' = arc]_vars

\* Serializing an instance with unparsable pattern text failed.
C15_Witness ==
    /\ out.op = "serialize" /\ ~out.ok
    /\ regexes[out.a].live /\ UnparsablePattern(out.a)

(***************************************************************************)
(* SpecLive: the threads share one instance and call is_match and search   *)
(* on it; a thread that is inside a call keeps running (the scheduler is   *)
(* fair to runnable threads, and a completed initializer wakes the callers *)
(* parked at the cell).                                                    *)
(***************************************************************************)
Proceed(t) ==
    \/ GetOrInit(t)
    \/ Initialize(t)
    \/ \E text \in LifecycleTexts : IsMatchReturn(t, text)
    \/ \E text \in LifecycleTexts : SearchReturn(t, text, 0, Len(text), FALSE)

NextLive ==
    \/ \E t \in Threads, r \in RegexIds, op \in {"is_match", "search"} : Call(t, r, op)
    \/ \E t \in Threads : Proceed(t)

SpecLive == Init /\ [][NextLive]_vars /\ \A t \in Threads : WF_vars(Proceed(t))

InCall(t, r) == pc[t] # "idle" /\ call[t].r = r
Parked(t, r) ==
    /\ pc[t] = "regex" /\ call[t].r = r
    /\ GetOrInitStep(regexes[r].state) = "wait"

\* C16: on a shared instance with a valid source every caller of is_match
\* or search eventually returns a result; a caller is parked at the cell
\* only while another thread is running the one compilation, and never
\* once the matcher is there.
C16_EveryCallerReturns ==
    /\ \A t \in Threads : \A r \in RegexIds :
          (InCall(t, r) /\ Valid(r)) ~> (pc[t] = "idle" /\ Returned(t, r))
    /\ [](\A t \in Threads : \A r \in RegexIds :
            (Parked(t, r) /\ Valid(r)) =>
                /\ ~Compiled(r)
                /\ InInit(r) # {}
                /\ regexes[r].builds = 0)

\* A search call is parked at the cell of a valid instance while another
\* thread compiles it.
C16_Witness ==
    \E r \in Live : \E t \in Threads :
        /\ Valid(r) /\ Parked(t, r) /\ call[t].op = "search"
        /\ InInit(r) \ {t} # {}

(***************************************************************************)
(* The region after a search that found nothing.                           *)
(***************************************************************************)
NotFound(t) == result[t].op = "search" /\ result[t].val = "false"

\* C17: a search that returns false leaves the region it was passed
\* exactly as it was: every pos(i) reads what it read before the call, so
\* the offsets of the previous successful search stay readable.
C17_NoMatchKeepsRegion ==
    /\ [](\A t \in Threads :
            (NotFound(t) /\ result[t].used) => Len(region[t]) = result[t].had)
    /\ [][\A t \in Threads :
            (pc[t] = "matching" /\ NotFound(t)') =>
                /\ region'[t] = region[t]
                /\ \A i \in Indexes : pos(region'[t], i) = pos(region[t], i)]_vars

\* A search that found no match (the engine reported none) was passed a
\* region that still reads the whole match of an earlier search.
C17_Witness ==
    \E t \in Threads :
        /\ NotFound(t) /\ result[t].used /\ result[t].engine = "none"
        /\ result[t].had > 0
        /\ pos(region[t], 0) # None

(***************************************************************************)
(* SpecClone: a program builds a value, clones it, builds other values,    *)
(* and uses all of them through every operation: is_match, search, ==,     *)
(* expr_tree, serialize; it also calls try_compile.                        *)
(***************************************************************************)
ClonePatterns == {PatTwoGroups, PatUnbalanced}

NextClone ==
    \/ \E r, r2 \in RegexIds : Clone(r, r2)
    \/ \E r \in RegexIds, p \in ClonePatterns : New(r, p)
    \/ \E r \in RegexIds, op \in {"is_match", "search"} : Call(Searcher, r, op)
    \/ Proceed(Searcher)
    \/ \E r1, r2 \in RegexIds : Eq(r1, r2)
    \/ \E r \in RegexIds : ExprTree(r)
    \/ \E r \in RegexIds : Serialize(r)
    \/ \E p \in ClonePatterns : TryCompile(p)

SpecClone == Init /\ [][NextClone]_vars

\* The compiled slot of an instance.
Slot(r) == <<regexes[r].state = "Complete", regexes[r].matcher>>

\* C18: the compiled slot of an instance changes only in a step of an
\* is_match or search call on that same instance; a new instance (clone
\* or constructor) starts with an empty slot and leaves every other
\* instance as it was, and ==, expr_tree, serialize and try_compile change
\* no instance at all.
C18_OnlyOwnCallsWriteTheSlot ==
    [][/\ \A r \in Live :
            Slot(r)' # Slot(r) =>
                \E t \in Threads :
                    /\ call[t].r = r /\ call[t].op \in {"is_match", "search"}
                    /\ pc[t] = "init" /\ pc'[t] = "matching"
                    /\ \A r2 \in RegexIds \ {r} : regexes'[r2] = regexes[r2]
       /\ \A r \in Free :
            regexes'[r].live =>
                /\ ~Compiled(r)' /\ regexes'[r].matcher = <<>>
                /\ \A r2 \in RegexIds \ {r} : regexes'[r2] = regexes[r2]
       /\ (out' # out /\ out'.op \in {"eq", "expr_tree", "serialize", "try_compile"})
            => regexes' = regexes]_vars

\* A clone of a compiled value has been compared with it and is still not
\* compiled.
C18_Witness ==
    /\ out.op = "eq" /\ out.a # out.b
    /\ out.b \in Clones(out.a)
    /\ Compiled(out.a) /\ ~Compiled(out.b)

\* C19: the source of an instance never changes after construction,
\* whatever is called on it or on another instance, and an instance never
\* goes away; a value and its clones hold the same source and so are ==
\* to one another in every state.
C19_SourceIsImmutable ==
    /\ [](\A r \in Live : \A r2 \in Clones(r) :
            /\ regexes[r2].source = regexes[r].source
            /\ eq(regexes[r], regexes[r2]))
    /\ [][\A r \in Live :
            /\ regexes'[r].live
            /\ regexes'[r].source = regexes[r].source
            /\ arc'[r] = arc[r]]_vars

\* A value built from a blob and a clone of it have both been compiled,
\* and the clone has then been serialized.
C19_Witness ==
    \E r \in Live : \E r2 \in Clones(r) \ {r} :
        /\ regexes[r].source.kind = "Binary"
        /\ Compiled(r) /\ Compiled(r2)
        /\ out.op = "serialize" /\ out.a = r2 /\ out.ok
====
